---- MODULE Spec2Model ----
(***************************************************************************)
(* A model of MobileRT's Utils.cpp (src/app/MobileRT/Utils/Utils.cpp):     *)
(* checkSystemError and the error indicator errno, roundDownToMultipleOf,  *)
(* haltonSequence and incrementalAvg.                                      *)
(*                                                                         *)
(* TLC's integers are 32-bit signed, so a 32-bit unsigned value of the     *)
(* code is kept as a pair <<hi, lo>> of 16-bit halves, and a float as a    *)
(* pair <<m, e>> (value m * 2^e, m = 0 or 2^23 <= m < 2^24) with IEEE-754  *)
(* round-to-nearest-even applied after every operation.                    *)
(***************************************************************************)
EXTENDS Integers, Sequences, FiniteSets, TLC

VARIABLES
    errno,      \* the error indicator read by checkSystemError (sequential use)
    locale,     \* the process locale, set by checkSystemError's setlocale call
    hist,       \* history of the operations done so far (oldest first)
    cell,       \* threads: the storage behind errno, one cell per location
    tpc,        \* threads: position of each thread inside checkSystemError
    tseen,      \* threads: id of the error each thread's call is reporting
    errOwner,   \* threads: for each error id, the thread whose call set it
    reports,    \* threads: for each error id, the threads that raised for it
    lost,       \* threads: ids overwritten by a later external call
    rValue, rMultiple, rRes, rpc,             \* roundDownToMultipleOf call
    hIndex0, hIndex, hBase, fraction, nextValue, hpc,   \* haltonSequence call
    aSample, aAvg, aNum, aRes, apc,           \* a single incrementalAvg call
    pixel, sampleCount,                         \* a pixel's accumulation period
    accPrev, accSample                        \* the word and sample of its last update

errVars == <<errno, locale, hist>>
thrVars == <<cell, tpc, tseen, errOwner, reports, lost>>
rndVars == <<rValue, rMultiple, rRes, rpc>>
halVars == <<hIndex0, hIndex, hBase, fraction, nextValue, hpc>>
avgVars == <<aSample, aAvg, aNum, aRes, apc>>
accVars == <<pixel, sampleCount, accPrev, accSample>>
vars == <<errVars, thrVars, rndVars, halVars, avgVars, accVars>>

(***************************************************************************)
(* The parts of the state a specification does not use stay as they are.   *)
(***************************************************************************)
IdleErr == errno = 0 /\ locale = "C" /\ hist = <<>>
IdleThr ==
    /\ cell = <<>> /\ tpc = <<>> /\ tseen = <<>>
    /\ errOwner = <<>> /\ reports = <<>> /\ lost = {}
IdleRnd == rValue = 0 /\ rMultiple = 1 /\ rRes = 0 /\ rpc = "off"
IdleHal ==
    /\ hIndex0 = 0 /\ hIndex = 0 /\ hBase = 2
    /\ fraction = <<0, 0>> /\ nextValue = <<0, 0>> /\ hpc = "off"
IdleAvg ==
    /\ aSample = <<>> /\ aAvg = <<0, 0>> /\ aNum = 1
    /\ aRes = <<0, 0>> /\ apc = "off"
IdleAcc == pixel = <<0, 0>> /\ sampleCount = 0 /\ accPrev = <<0, 0>> /\ accSample = <<>>

(***************************************************************************)
(* checkSystemError, called from one thread.                               *)
(***************************************************************************)
EWOULDBLOCK == 11
EINVAL == 22
ENOENT == 2
ENOMEM == 12

\* The codes an external call leaves in errno; 0 is a caller clearing it.
Codes == {0, EWOULDBLOCK, EINVAL, ENOENT, ENOMEM}

\* The caller-supplied messages, as sequences of characters.
Messages == {<<"o", "b", "j">>, <<"m", "t", "l">>}

\* Bound on the number of operations in a history.
MaxHist == 4

\* Faulty variant: the two ignored codes are not exempted.
IsErrorNoIgnore(e) == e # 0

\* The condition of the if at line 244, with the two ignored codes.
IsError(e) == e # 0 /\ e # EWOULDBLOCK /\ e # EINVAL

Digit(d) ==
    CASE d = 0 -> "0" [] d = 1 -> "1" [] d = 2 -> "2" [] d = 3 -> "3"
      [] d = 4 -> "4" [] d = 5 -> "5" [] d = 6 -> "6" [] d = 7 -> "7"
      [] d = 8 -> "8" [] d = 9 -> "9"

\* ::MobileRT::std::to_string(errno): the decimal digits of a code >= 0.
RECURSIVE to_string(_)
to_string(n) == IF n < 10 THEN <<Digit(n)>> ELSE to_string(n \div 10) \o <<Digit(n % 10)>>

\* getErrorCode(), ::std::strerror: lookups of the platform, opaque here.
GetErrorCode(e) ==
    [codeText |-> <<"E">> \o to_string(e), description |-> <<"d", "e", "s", "c">>]
StrError(e) == <<"s", "t", "r">>

NL == <<"\n">>

\* Faulty variant: the caller's message is left out of the text.
ErrorMessageNoCaller(message, e) ==
    LET currentError == GetErrorCode(e)
    IN  currentError.codeText \o NL \o currentError.description \o NL
        \o <<"e", "r", "r", "n", "o", " ", "(">> \o to_string(e) \o <<")", ":", " ">>
        \o StrError(e)

\* The text of the runtime_error, lines 249-253.
ErrorMessage(message, e) ==
    LET currentError == GetErrorCode(e)
    IN  message \o NL \o currentError.codeText \o NL \o currentError.description \o NL
        \o <<"e", "r", "r", "n", "o", " ", "(">> \o to_string(e) \o <<")", ":", " ">>
        \o StrError(e)

\* Faulty variant: errno is not cleared before the throw.
ResetValueKeep(e) == e

\* The value line 279 stores into errno before the throw.
ResetValue(e) == 0

\* An external call (file or resource operation) leaves a code in errno.
ExternalCall(code) ==
    /\ Len(hist) < MaxHist
    /\ errno' = code
    /\ hist' = Append(hist, [op |-> "set", pre |-> errno, msg |-> <<>>,
                             raised |-> FALSE, what |-> <<>>, atThrow |-> code])
    /\ UNCHANGED locale

\* checkSystemError(message), lines 238-282: the whole call.  The event
\* records whether it threw, the text thrown, and errno when the throw ran.
checkSystemError(message) ==
    /\ Len(hist) < MaxHist
    /\ IF IsError(errno)
       THEN LET errorMessage == ErrorMessage(message, errno)
                afterReset == ResetValue(errno)
            IN  /\ locale' = "en_US.UTF-8"
                /\ errno' = afterReset
                /\ hist' = Append(hist, [op |-> "check", pre |-> errno, msg |-> message,
                                         raised |-> TRUE, what |-> errorMessage,
                                         atThrow |-> afterReset])
       ELSE /\ UNCHANGED <<errno, locale>>
            /\ hist' = Append(hist, [op |-> "check", pre |-> errno, msg |-> message,
                                     raised |-> FALSE, what |-> <<>>,
                                     atThrow |-> errno])

InitErr == errno \in Codes /\ locale \in {"C", "pt_PT.UTF-8"} /\ hist = <<>>

Init == InitErr /\ IdleThr /\ IdleRnd /\ IdleHal /\ IdleAvg /\ IdleAcc

Next ==
    \/ \E code \in Codes : ExternalCall(code) /\ UNCHANGED <<thrVars, rndVars, halVars, avgVars, accVars>>
    \/ \E message \in Messages : checkSystemError(message) /\ UNCHANGED <<thrVars, rndVars, halVars, avgVars, accVars>>

Spec == Init /\ [][Next]_vars

(***************************************************************************)
(* checkSystemError called from several threads, one statement at a time.  *)
(* errno is an lvalue with thread storage duration: each thread's errno    *)
(* designates that thread's own cell.  Every real error an external call   *)
(* leaves behind gets an id, so that a report can be traced to its origin. *)
(***************************************************************************)
NumThreads == 2
Threads == 1..NumThreads

\* Bound on the number of real errors external calls set.
MaxErrors == 3

\* The codes external calls leave in errno in the threaded runs.
ThreadCodes == {EWOULDBLOCK, ENOENT}

\* Faulty variant: one cell for the whole process.
ErrnoLocationShared(t) == 1

\* The cell that the expression errno designates in thread t.
ErrnoLocation(t) == t

NoError == [code |-> 0, id |-> 0]

\* The thread is in its caller's code, not inside checkSystemError.
Outside(t) == tpc[t] \in {"idle", "returned", "thrown"}

\* An external call in thread t leaves a code in t's errno.
ThreadExternalCall(t, code) ==
    LET loc == ErrnoLocation(t)
        real == IsError(code)
        newId == IF real THEN Len(errOwner) + 1 ELSE 0
    IN  /\ Outside(t)
        /\ real => Len(errOwner) < MaxErrors
        /\ cell' = [cell EXCEPT ![loc] = [code |-> code, id |-> newId]]
        /\ errOwner' = IF real THEN Append(errOwner, t) ELSE errOwner
        /\ reports' = IF real THEN Append(reports, <<>>) ELSE reports
        /\ lost' = IF cell[loc].id # 0 THEN lost \cup {cell[loc].id} ELSE lost
        /\ tpc' = [tpc EXCEPT ![t] = "idle"]
        /\ UNCHANGED tseen

\* Line 244: thread t enters checkSystemError and tests errno.
ThreadTest(t) ==
    /\ Outside(t)
    /\ tpc' = [tpc EXCEPT ![t] =
                 IF IsError(cell[ErrnoLocation(t)].code) THEN "compose" ELSE "returned"]
    /\ UNCHANGED <<cell, tseen, errOwner, reports, lost>>

\* Lines 245-254: the message is built from errno as it is now.
ThreadCompose(t) ==
    /\ tpc[t] = "compose"
    /\ tseen' = [tseen EXCEPT ![t] = cell[ErrnoLocation(t)].id]
    /\ tpc' = [tpc EXCEPT ![t] = "reset"]
    /\ UNCHANGED <<cell, errOwner, reports, lost>>

\* Line 279: errno = 0.  An error in the cell that is not the one being
\* reported is overwritten unreported.
ThreadReset(t) ==
    LET loc == ErrnoLocation(t)
    IN  /\ tpc[t] = "reset"
        /\ cell' = [cell EXCEPT ![loc] = NoError]
        /\ lost' = IF cell[loc].id \notin {0, tseen[t]}
                   THEN lost \cup {cell[loc].id} ELSE lost
        /\ tpc' = [tpc EXCEPT ![t] = "throw"]
        /\ UNCHANGED <<tseen, errOwner, reports>>

\* Line 280: the throw; thread t's caller receives the failure.
ThreadThrow(t) ==
    /\ tpc[t] = "throw"
    /\ reports' = IF tseen[t] = 0 THEN reports
                  ELSE [reports EXCEPT ![tseen[t]] = Append(@, t)]
    /\ tseen' = [tseen EXCEPT ![t] = 0]
    /\ tpc' = [tpc EXCEPT ![t] = "thrown"]
    /\ UNCHANGED <<cell, errOwner, lost>>

InitThr ==
    /\ cell = [l \in Threads |-> NoError]
    /\ tpc = [t \in Threads |-> "idle"]
    /\ tseen = [t \in Threads |-> 0]
    /\ errOwner = <<>>
    /\ reports = <<>>
    /\ lost = {}

InitThreads == IdleErr /\ InitThr /\ IdleRnd /\ IdleHal /\ IdleAvg /\ IdleAcc

NextThreads ==
    \/ \E t \in Threads, code \in ThreadCodes : ThreadExternalCall(t, code) /\ UNCHANGED <<errVars, rndVars, halVars, avgVars, accVars>>
    \/ \E t \in Threads : ThreadTest(t) /\ UNCHANGED <<errVars, rndVars, halVars, avgVars, accVars>>
    \/ \E t \in Threads : ThreadCompose(t) /\ UNCHANGED <<errVars, rndVars, halVars, avgVars, accVars>>
    \/ \E t \in Threads : ThreadReset(t) /\ UNCHANGED <<errVars, rndVars, halVars, avgVars, accVars>>
    \/ \E t \in Threads : ThreadThrow(t) /\ UNCHANGED <<errVars, rndVars, halVars, avgVars, accVars>>

SpecThreads == InitThreads /\ [][NextThreads]_vars

(***************************************************************************)
(* roundDownToMultipleOf.                                                  *)
(***************************************************************************)
\* Bounds on the arguments tried: value in -MaxValue..MaxValue, multiple in
\* 1..MaxMultiple.
MaxValue == 12
MaxMultiple == 5

\* The % of C++ on int32: the quotient truncates towards zero, so the
\* remainder has the sign of the dividend (b > 0 here).
CRem(a, b) == IF a >= 0 THEN a % b ELSE -((-a) % b)

\* Faulty variant: any nonzero remainder is subtracted.
roundDownAnyRest(value, multiple) ==
    LET rest == CRem(value, multiple)
    IN  IF rest > 0 THEN value - rest ELSE value

\* Lines 24-29.
roundDownToMultipleOf(value, multiple) ==
    LET rest == CRem(value, multiple)
        res == IF rest > 1 THEN value - rest ELSE value
    IN  res

RoundCall ==
    /\ rpc = "call"
    /\ rRes' = roundDownToMultipleOf(rValue, rMultiple)
    /\ rpc' = "done"
    /\ UNCHANGED <<rValue, rMultiple>>

InitRnd ==
    /\ rValue \in (-MaxValue)..MaxValue
    /\ rMultiple \in 1..MaxMultiple
    /\ rRes = 0
    /\ rpc = "call"

InitRound == IdleErr /\ IdleThr /\ InitRnd /\ IdleHal /\ IdleAvg /\ IdleAcc

NextRound == RoundCall /\ UNCHANGED <<errVars, thrVars, halVars, avgVars, accVars>>

SpecRound == InitRound /\ [][NextRound]_vars

(***************************************************************************)
(* Single-precision floats: <<m, e>> stands for m * 2^e, with m = 0 or     *)
(* 2^23 <= m < 2^24.  The values met here are far from the exponent        *)
(* limits, so there is neither overflow nor a subnormal result.            *)
(***************************************************************************)
FZero == <<0, 0>>
FOne == <<2^23, -23>>

RECURSIVE BitLen(_)
BitLen(x) == IF x = 0 THEN 0 ELSE 1 + BitLen(x \div 2)

\* Round (X + s) * 2^e to 24 significant bits, nearest, ties to even, where
\* s is 0, or a fraction strictly between 0 and 1 when sticky.
RoundNE(X, sticky, e) ==
    IF X = 0 THEN FZero
    ELSE LET k == BitLen(X) - 24
         IN  IF k <= 0 THEN <<X * 2^(-k), e + k>>
             ELSE LET q == X \div 2^k
                      low == X % 2^k
                      half == 2^(k - 1)
                      up == low > half \/ (low = half /\ (sticky \/ q % 2 = 1))
                      q2 == IF up THEN q + 1 ELSE q
                  IN  IF q2 = 2^24 THEN <<2^23, e + k + 1>> ELSE <<q2, e + k>>

\* a / static_cast<float>(n) for an integer 2 <= n <= 32 (held exactly).
FDivInt(a, n) ==
    IF a[1] = 0 THEN FZero
    ELSE LET num == a[1] * 128
         IN  RoundNE(num \div n, num % n # 0, a[2] - 7)

\* a * static_cast<float>(c) for an integer 0 <= c <= 255 (held exactly).
FMulInt(a, c) ==
    IF a[1] = 0 \/ c = 0 THEN FZero
    ELSE IF c < 128 THEN RoundNE(a[1] * c, FALSE, a[2])
    ELSE LET odd == (a[1] % 2) * c
             A == (a[1] \div 2) * c + odd \div 2
         IN  RoundNE(A, odd % 2 = 1, a[2] + 1)

\* a + b for a, b >= 0.
FAdd(a, b) ==
    IF a[1] = 0 THEN b
    ELSE IF b[1] = 0 THEN a
    ELSE LET hi == IF a[2] >= b[2] THEN a ELSE b
             lo == IF a[2] >= b[2] THEN b ELSE a
             d == hi[2] - lo[2]
         IN  IF d > 26 THEN hi
             ELSE RoundNE(hi[1] * 8 + (lo[1] * 8) \div 2^d,
                          (lo[1] * 8) % 2^d # 0, hi[2] - 3)

\* a < b for a, b >= 0.
FLess(a, b) ==
    IF b[1] = 0 THEN FALSE
    ELSE IF a[1] = 0 THEN TRUE
    ELSE a[2] < b[2] \/ (a[2] = b[2] /\ a[1] < b[1])

\* static_cast<::std::uint32_t>(a) for 0 <= a < 2^31: truncation.
FTrunc(a) ==
    IF a[1] = 0 THEN 0
    ELSE IF a[2] >= 0 THEN a[1] * 2^a[2]
    ELSE IF a[2] < -24 THEN 0
    ELSE a[1] \div 2^(-a[2])

(***************************************************************************)
(* haltonSequence, one loop iteration per step.                            *)
(***************************************************************************)
\* Bounds: every index in 0..MaxIndex and every base in 2..MaxBase is tried.
MaxIndex == 40
MaxBase == 5

\* Further indexes tried, up to the largest that TLC's integers hold
\* (the code's index is unsigned 32-bit).
BigIndexes == {2^24 - 1, 2^24, 2^25 - 1, 2^25, 2^26 - 1, 2147483647}

\* Lines 46-48: the body of the while loop.
HaltonLoop ==
    /\ hpc = "loop"
    /\ hIndex > 0
    /\ LET baseInFloat == hBase   \* static_cast<float>(base), exact for these bases
           newFraction == FDivInt(fraction, baseInFloat)
       IN  /\ fraction' = newFraction
           /\ nextValue' = FAdd(nextValue, FMulInt(newFraction, hIndex % hBase))
           /\ hIndex' = hIndex \div hBase
    /\ UNCHANGED <<hIndex0, hBase, hpc>>

\* Lines 45 and 50: the loop ends when index is 0 and nextValue is returned.
HaltonReturn ==
    /\ hpc = "loop"
    /\ ~(hIndex > 0)
    /\ hpc' = "done"
    /\ UNCHANGED <<hIndex0, hIndex, hBase, fraction, nextValue>>

InitHal ==
    /\ hIndex0 \in (0..MaxIndex) \cup BigIndexes
    /\ hIndex = hIndex0
    /\ hBase \in 2..MaxBase
    /\ fraction = FOne
    /\ nextValue = FZero
    /\ hpc = "loop"

InitHalton == IdleErr /\ IdleThr /\ IdleRnd /\ InitHal /\ IdleAvg /\ IdleAcc

NextHalton ==
    \/ HaltonLoop /\ UNCHANGED <<errVars, thrVars, rndVars, avgVars, accVars>>
    \/ HaltonReturn /\ UNCHANGED <<errVars, thrVars, rndVars, avgVars, accVars>>

SpecHalton == InitHalton /\ [][NextHalton]_vars

(***************************************************************************)
(* 32-bit unsigned arithmetic on pairs <<hi, lo>> of 16-bit halves: every  *)
(* operation wraps modulo 2^32 as the code's ::std::uint32_t does.         *)
(***************************************************************************)
\* static_cast<::std::uint32_t>(n) for 0 <= n < 2^31.
ToU32(n) == <<n \div 65536, n % 65536>>

\* a - 1U.
SubOneU32(a) ==
    IF a[2] > 0 THEN <<a[1], a[2] - 1>>
    ELSE IF a[1] > 0 THEN <<a[1] - 1, 65535>>
    ELSE <<65535, 65535>>

\* a * c for a 32-bit a and a c that fits one byte.
MulU32(a, c) ==
    LET lo == a[2] * c
    IN  <<(a[1] * c + lo \div 65536) % 65536, lo % 65536>>

\* a + b.
AddU32(a, b) ==
    LET lo == a[2] + b[2]
    IN  <<(a[1] + b[1] + lo \div 65536) % 65536, lo % 65536>>

\* Long division, bit i of the 16-bit limb x down to bit 0: q is the quotient
\* so far, r the remainder so far (r < n).  2r + bit >= n is tested as
\* r >= n - r - bit, which stays inside the integers at hand.
RECURSIVE DivBits(_, _, _, _, _)
DivBits(x, i, n, q, r) ==
    LET bit == (x \div 2^i) % 2
        ge == r >= n - r - bit
        r2 == IF ge THEN r - (n - r - bit) ELSE 2 * r + bit
        q2 == 2 * q + (IF ge THEN 1 ELSE 0)
    IN  IF i = 0 THEN <<q2, r2>> ELSE DivBits(x, i - 1, n, q2, r2)

\* a / n (unsigned, truncating) for 1 <= n < 2^31.
DivU32(a, n) ==
    LET h == DivBits(a[1], 15, n, 0, 0)
        l == DivBits(a[2], 15, n, 0, h[2])
    IN  <<h[1], l[1]>>

\* ::std::min(a, 255U), as a number.
Min255(a) == IF a[1] > 0 \/ a[2] > 255 THEN 255 ELSE a[2]

(***************************************************************************)
(* incrementalAvg.  A packed colour (the int32 avg and the int32 result)   *)
(* is kept as its 32-bit pattern.                                          *)
(***************************************************************************)
\* Faulty variant: the previous word's alpha byte is kept.
PackKeepAlpha(avgUnsigned, retR, retG, retB) ==
    <<(avgUnsigned[1] \div 256) * 256 + retB, retG * 256 + retR>>

\* Line 88: 0xFF000000 | retB << 16U | retG << 8U | retR, for bytes.
Pack(avgUnsigned, retR, retG, retB) == <<65280 + retB, retG * 256 + retR>>

\* Lines 73-75: static_cast<::std::uint32_t>(sample[i] * 255U).
Sampler(c) == ToU32(FTrunc(FMulInt(c, 255)))

\* Faulty variant: the old average is weighted by numSample, not numSample - 1.
CurrentFullWeight(numSample, last, sampler) ==
    DivU32(AddU32(MulU32(ToU32(numSample), last), sampler), numSample)

\* Lines 77-82: ((numSampleUnsigned - 1U) * last + sampler) / numSampleUnsigned.
Current(numSample, last, sampler) ==
    DivU32(AddU32(MulU32(SubOneU32(ToU32(numSample)), last), sampler), numSample)

\* Lines 64-91.
incrementalAvg(sample, avg, numSample) ==
    LET avgUnsigned == avg
        lastRed == avgUnsigned[2] % 256
        lastGreen == (avgUnsigned[2] \div 256) % 256
        lastBlue == avgUnsigned[1] % 256
        samplerRed == Sampler(sample[1])
        samplerGreen == Sampler(sample[2])
        samplerBlue == Sampler(sample[3])
        currentRed == Current(numSample, lastRed, samplerRed)
        currentGreen == Current(numSample, lastGreen, samplerGreen)
        currentBlue == Current(numSample, lastBlue, samplerBlue)
        retR == Min255(currentRed)
        retG == Min255(currentGreen)
        retB == Min255(currentBlue)
    IN  Pack(avgUnsigned, retR, retG, retB)

\* Sample channels in [0, 1]: 0, 0.2f, 0.5, the float just below 1, and 1.
SampleChannels == {FZero, <<13421773, -26>>, <<2^23, -24>>, <<2^24 - 1, -24>>, FOne}

\* Previous packed words, with several alpha bytes.
PackedWords == {<<0, 0>>, <<65535, 65535>>, <<4660, 22136>>, <<255, 65280>>, <<32768, 1>>}

\* Bound: every sampleCount in 1..MaxCount is tried in a single call.
MaxCount == 3

\* Further sampleCounts tried, up to the largest int32.
BigCounts == {255, 65536, 16843009, 16843010, 2^24, 2^30, 2147483647}

AvgCall ==
    /\ apc = "call"
    /\ aRes' = incrementalAvg(aSample, aAvg, aNum)
    /\ apc' = "done"
    /\ UNCHANGED <<aSample, aAvg, aNum>>

InitAvgCall ==
    /\ aSample \in {<<r, g, b>> : r \in SampleChannels, g \in {FZero, FOne},
                                  b \in {<<2^23, -24>>, FOne}}
    /\ aAvg \in PackedWords
    /\ aNum \in (1..MaxCount) \cup BigCounts
    /\ aRes = <<0, 0>>
    /\ apc = "call"

InitAvg == IdleErr /\ IdleThr /\ IdleRnd /\ IdleHal /\ InitAvgCall /\ IdleAcc

NextAvg == AvgCall /\ UNCHANGED <<errVars, thrVars, rndVars, halVars, accVars>>

SpecAvg == InitAvg /\ [][NextAvg]_vars

(***************************************************************************)
(* A pixel's accumulation period: the packed word is replaced by           *)
(* incrementalAvg's result once per sample, sampleCount = 1, 2, 3, ...     *)
(***************************************************************************)
\* Bound on the number of samples accumulated into the pixel.
MaxSamples == 4

AccSamples ==
    {<<FZero, FZero, FZero>>, <<FOne, FOne, FOne>>,
     <<FOne, <<2^23, -24>>, FZero>>, <<<<13421773, -26>>, <<2^24 - 1, -24>>, FOne>>}

AddSample(sample) ==
    /\ sampleCount < MaxSamples
    /\ pixel' = incrementalAvg(sample, pixel, sampleCount + 1)
    /\ sampleCount' = sampleCount + 1
    /\ accPrev' = pixel
    /\ accSample' = sample

InitAcc ==
    /\ pixel \in PackedWords
    /\ sampleCount = 0
    /\ accPrev = <<0, 0>>
    /\ accSample = <<FZero, FZero, FZero>>

InitAccum == IdleErr /\ IdleThr /\ IdleRnd /\ IdleHal /\ IdleAvg /\ InitAcc

NextAccum ==
    \E sample \in AccSamples : AddSample(sample) /\ UNCHANGED <<errVars, thrVars, rndVars, halVars, avgVars>>

SpecAccum == InitAccum /\ [][NextAccum]_vars

(***************************************************************************)
(* Claims C1-C3: checkSystemError in a sequential history.                 *)
(***************************************************************************)
Benign == {0, EWOULDBLOCK, EINVAL}

Contains(hay, needle) ==
    \E i \in 0..(Len(hay) - Len(needle)) : SubSeq(hay, i + 1, i + Len(needle)) = needle

\* No external call has set the indicator after event i.
NoSetAfter(i) == \A j \in (i + 1)..Len(hist) : hist[j].op = "check"

\* The indicator as event i found it came from the external call just
\* before it (or is the value the history started with).
FreshlySet(i) == i = 1 \/ hist[i - 1].op = "set"

\* C1: a checkSystemError that finds a non-benign nonzero code raises a
\* failure whose text contains the caller's message; the indicator is 0
\* when the failure is raised, and stays 0 until an external call sets it.
C1_RaisesWithMessageAndResets ==
    \A i \in 1..Len(hist) :
        (hist[i].op = "check" /\ hist[i].pre \notin Benign) =>
            /\ hist[i].raised
            /\ Contains(hist[i].what, hist[i].msg)
            /\ hist[i].atThrow = 0
            /\ (NoSetAfter(i) => errno = 0)

C1_Witness ==
    \E i \in 1..Len(hist) :
        /\ hist[i].op = "check" /\ hist[i].pre = ENOENT /\ hist[i].raised
        /\ i < Len(hist) /\ NoSetAfter(i)

\* C2: a checkSystemError that finds 0, EWOULDBLOCK or EINVAL does not
\* raise and changes nothing: the indicator and the locale keep their values.
C2_BenignNoEffect ==
    [][ (/\ Len(hist') = Len(hist) + 1
         /\ hist'[Len(hist')].op = "check"
         /\ errno \in Benign)
        => (/\ ~hist'[Len(hist')].raised
            /\ hist'[Len(hist')].what = <<>>
            /\ errno' = errno
            /\ locale' = locale) ]_vars

C2_Witness ==
    /\ Len(hist) >= 2
    /\ hist[Len(hist)].op = "check" /\ hist[Len(hist)].pre = EWOULDBLOCK
    /\ hist[Len(hist) - 1].op = "check" /\ hist[Len(hist) - 1].pre = EWOULDBLOCK
    /\ ~hist[Len(hist)].raised /\ errno = EWOULDBLOCK

\* C3: in a sequential history a real error is reported exactly once: a
\* checkSystemError raises exactly when the indicator it finds was freshly
\* set to a real error, so the first check after the set raises and every
\* later check raises nothing until a real error is set again.
C3_ReportedExactlyOnce ==
    \A i \in 1..Len(hist) :
        hist[i].op = "check" =>
            (hist[i].raised <=>
                /\ FreshlySet(i)
                /\ (IF i = 1 THEN hist[1].pre ELSE hist[i - 1].atThrow) \notin Benign)

C3_Witness ==
    /\ Len(hist) >= 4
    /\ hist[1].op = "set" /\ hist[1].atThrow = ENOMEM
    /\ hist[2].op = "check" /\ hist[2].raised
    /\ hist[3].op = "check" /\ ~hist[3].raised
    /\ hist[4].op = "check" /\ ~hist[4].raised

(***************************************************************************)
(* Claim C4: checkSystemError from two threads without serialization.      *)
(***************************************************************************)
\* The error id is still in some thread's indicator, or some call is
\* between building its message and throwing.
InFlight(id) ==
    \/ \E l \in Threads : cell[l].id = id
    \/ \E t \in Threads : tseen[t] = id

C8_HighestMultiple ==
    rpc = "done" =>
        /\ \E k \in (-MaxValue - 1)..(MaxValue + 1) : rRes = k * rMultiple
        /\ rRes <= rValue
        /\ rValue - rRes < rMultiple

C10_HaltonInUnitInterval ==
    /\ hpc = "loop" => (hIndex > 0 => hIndex \div hBase < hIndex)
    /\ hpc = "done" =>
        /\ hIndex = 0
        /\ FLess(nextValue, FOne)
        /\ (nextValue = FZero <=> hIndex0 = 0)

(***************************************************************************)
(* Claims C5-C7: incrementalAvg.                                           *)
(***************************************************************************)
\* floor(c * 255) for a sample channel c in [0, 1], in exact arithmetic.
ExactScaled(c) ==
    IF c[1] = 0 THEN 0
    ELSE ((c[1] \div 2) * 255 + ((c[1] % 2) * 255) \div 2) \div 2^(-c[2] - 1)

\* (n - 1) * old + s in exact arithmetic, as limbs <<top, mid, lo>> of 16 bits.
ExactSum(n, old, s) ==
    LET p0 == ((n - 1) % 65536) * old + s
        p1 == ((n - 1) \div 65536) * old + p0 \div 65536
    IN  <<p1 \div 65536, p1 % 65536, p0 % 65536>>

\* min(255, floor(((n - 1) * old + s) / n)) in exact arithmetic.
ExactChannel(n, old, s) ==
    LET E == ExactSum(n, old, s)
        t == DivBits(E[1], 15, n, 0, 0)
        m == DivBits(E[2], 15, n, 0, t[2])
        l == DivBits(E[3], 15, n, 0, m[2])
    IN  IF t[1] > 0 \/ m[1] > 0 \/ l[1] > 255 THEN 255 ELSE l[1]

Red(w) == w[2] % 256
Green(w) == (w[2] \div 256) % 256
Blue(w) == w[1] % 256
Alpha(w) == w[1] \div 256

\* C5: every channel of the result is min(255, floor(((sampleCount - 1) *
\* oldChannel + scaledSample) / sampleCount)) in exact integer arithmetic,
\* and the 32-bit product and sum never wrap (the exact sum is below 2^32).
C5_ExactAverageNoWrap ==
    apc = "done" =>
        /\ Red(aRes) = ExactChannel(aNum, Red(aAvg), ExactScaled(aSample[1]))
        /\ Green(aRes) = ExactChannel(aNum, Green(aAvg), ExactScaled(aSample[2]))
        /\ Blue(aRes) = ExactChannel(aNum, Blue(aAvg), ExactScaled(aSample[3]))
        /\ ExactSum(aNum, Red(aAvg), ExactScaled(aSample[1]))[1] = 0
        /\ ExactSum(aNum, Green(aAvg), ExactScaled(aSample[2]))[1] = 0
        /\ ExactSum(aNum, Blue(aAvg), ExactScaled(aSample[3]))[1] = 0

\* C6: with sampleCount = 1 the result's channels are the sample's channels
\* times 255, truncated, whatever the previous word: the result is a
\* function of the sample alone.
C6_FirstSampleSetsColor ==
    (apc = "done" /\ aNum = 1) =>
        aRes = <<65280 + ExactScaled(aSample[3]),
                 ExactScaled(aSample[2]) * 256 + ExactScaled(aSample[1])>>

C6_Witness ==
    /\ apc = "done" /\ aNum = 1
    /\ aAvg = <<4660, 22136>>
    /\ aSample = <<<<13421773, -26>>, FOne, <<2^23, -24>>>>
    /\ aRes = <<65280 + 127, 255 * 256 + 51>>

\* C7: during accumulation every word produced has alpha 0xFF, and holds
\* blue, green and red (each in 0..255) in that order below the alpha byte:
\* each is the running average of the previous word's same byte.
C7_OpaqueAndLayout ==
    sampleCount >= 1 =>
        /\ Alpha(pixel) = 255
        /\ pixel[1] \in 0..65535 /\ pixel[2] \in 0..65535
        /\ Red(pixel) = (((sampleCount - 1) * Red(accPrev) + ExactScaled(accSample[1]))
                           \div sampleCount)
        /\ Green(pixel) = (((sampleCount - 1) * Green(accPrev) + ExactScaled(accSample[2]))
                           \div sampleCount)
        /\ Blue(pixel) = (((sampleCount - 1) * Blue(accPrev) + ExactScaled(accSample[3]))
                           \div sampleCount)
        /\ Red(pixel) \in 0..255 /\ Green(pixel) \in 0..255 /\ Blue(pixel) \in 0..255

C7_Witness ==
    /\ sampleCount = 3
    /\ accSample = <<FOne, <<2^23, -24>>, FZero>>
    /\ Alpha(pixel) = 255
    /\ Red(pixel) > Green(pixel) /\ Green(pixel) > Blue(pixel)

====
